---- MODULE Spec2Model ----
(***************************************************************************)
(* Model of the trust-establishment code of the messaging node:            *)
(*   - the keyed signatures of the three domains (client token, API sign,  *)
(*     channel sign): generate* / check* functions;                        *)
(*   - the namespace registry of node.Config: Validate and channelOpts.    *)
(* Byte strings are sequences of one-character strings.  HMAC-SHA256 is    *)
(* idealised as injective on (key, bytes written): its digest is the pair  *)
(* <<key, bytes>>, and the hexadecimal rendering is injective on digests.  *)
(***************************************************************************)
EXTENDS Integers, Sequences, FiniteSets, TLC

VARIABLES
  secret,   \* Config.Secret, the key of the signature service
  phase,    \* where the current signature exchange stands
  issued,   \* the signature minted in this exchange
  verdict,  \* the check made in this exchange
  cfg,      \* the Config the registry reads: Options and Namespaces
  cfg0,     \* the Config as constructed (history)
  calls     \* per caller, the Validate or channelOpts call in progress

sigVars == <<secret, phase, issued, verdict>>
regVars == <<cfg, cfg0, calls>>
vars == <<secret, phase, issued, verdict, cfg, cfg0, calls>>

\* Total number of bytes over all the fields of one call.
MaxLen == 2

Alphabet == {"1", "{", "}"}

Secrets == {<<"1">>, <<"}", "1">>}

EmptyString == <<>>

RECURSIVE StrOfLen(_)
StrOfLen(n) ==
  IF n = 0 THEN {<<>>}
  ELSE {Append(s, c) : s \in StrOfLen(n - 1), c \in Alphabet}

StrUpTo(n) == UNION {StrOfLen(k) : k \in 0..n}

\* All tuples of `arity` byte strings whose lengths sum to at most `budget`.
RECURSIVE FieldTuples(_, _)
FieldTuples(arity, budget) ==
  IF arity = 0 THEN {<<>>}
  ELSE UNION {{<<s>> \o t : t \in FieldTuples(arity - 1, budget - Len(s))} :
              s \in StrUpTo(budget)}

TokenFields == FieldTuples(4, MaxLen)
ApiFields == FieldTuples(2, MaxLen)
ChannelFields == FieldTuples(3, MaxLen)

(***************************************************************************)
(* crypto/hmac and fmt as the code uses them.                              *)
(***************************************************************************)
hmacNew(key) == [key |-> key, buf |-> <<>>]

hmacWrite(h, bytes) == [h EXCEPT !.buf = @ \o bytes]

\* The digest, idealised: determined by, and determining, key and bytes.
hmacSum(h) == <<h.key, h.buf>>

\* fmt.Sprintf("%02x", digest): two lowercase hex digits per byte; injective.
\* The rendering of no bytes at all is the empty string.
Sprintf02x(digest) == [hex |-> digest]

(***************************************************************************)
(* Connection token.                                                       *)
(***************************************************************************)
\* Faulty variant: the fields are joined with a separator before hashing.
generateClientToken_Joined(secretKey, projectKey, user, timestamp, info) ==
  LET info1 == IF info = EmptyString THEN <<"{", "}">> ELSE info
      joined == projectKey \o <<":">> \o user \o <<":">> \o timestamp
                \o <<":">> \o info1
  IN  Sprintf02x(hmacSum(hmacWrite(hmacNew(secretKey), joined)))

\* Faulty variant: an empty info is hashed as it is.
generateClientToken_NoDefault(secretKey, projectKey, user, timestamp, info) ==
  LET t0 == hmacNew(secretKey)
      t1 == hmacWrite(t0, projectKey)
      t2 == hmacWrite(t1, user)
      t3 == hmacWrite(t2, timestamp)
      t4 == hmacWrite(t3, info)
  IN  Sprintf02x(hmacSum(t4))

generateClientToken(secretKey, projectKey, user, timestamp, info) ==
  LET t0 == hmacNew(secretKey)
      t1 == hmacWrite(t0, projectKey)
      t2 == hmacWrite(t1, user)
      t3 == hmacWrite(t2, timestamp)
      info1 == IF info = EmptyString THEN <<"{", "}">> ELSE info
      t4 == hmacWrite(t3, info1)
  IN  Sprintf02x(hmacSum(t4))

\* Faulty variant: the token is regenerated without the connection info.
checkClientToken_NoInfo(secretKey, projectKey, user, timestamp, info, providedToken) ==
  LET token == generateClientToken(secretKey, projectKey, user, timestamp,
                                   EmptyString)
  IN  token = providedToken

checkClientToken(secretKey, projectKey, user, timestamp, info, providedToken) ==
  LET token == generateClientToken(secretKey, projectKey, user, timestamp, info)
  IN  token = providedToken

(***************************************************************************)
(* API sign.                                                               *)
(***************************************************************************)
\* Faulty variant: the bytes are prefixed with the name of the domain.
generateApiSign_Tagged(secretKey, projectKey, encodedData) ==
  LET s0 == hmacNew(secretKey)
      s1 == hmacWrite(s0, <<"a", "p", "i">>)
      s2 == hmacWrite(s1, projectKey)
      s3 == hmacWrite(s2, encodedData)
  IN  Sprintf02x(hmacSum(s3))

generateApiSign(secretKey, projectKey, encodedData) ==
  LET s0 == hmacNew(secretKey)
      s1 == hmacWrite(s0, projectKey)
      s2 == hmacWrite(s1, encodedData)
  IN  Sprintf02x(hmacSum(s2))

checkApiSign(secretKey, projectKey, encodedData, providedSign) ==
  LET sign == generateApiSign(secretKey, projectKey, encodedData)
  IN  sign = providedSign

(***************************************************************************)
(* Channel sign.                                                           *)
(***************************************************************************)
\* Faulty variant: the channel data is left out of the signature.
generateChannelSign_NoData(secretKey, client, channel, channelData) ==
  LET s0 == hmacNew(secretKey)
      s1 == hmacWrite(s0, client)
      s2 == hmacWrite(s1, channel)
  IN  Sprintf02x(hmacSum(s2))

generateChannelSign(secretKey, client, channel, channelData) ==
  LET s0 == hmacNew(secretKey)
      s1 == hmacWrite(s0, client)
      s2 == hmacWrite(s1, channel)
      s3 == hmacWrite(s2, channelData)
  IN  Sprintf02x(hmacSum(s3))

checkChannelSign(secretKey, client, channel, channelData, providedSign) ==
  LET sign == generateChannelSign(secretKey, client, channel, channelData)
  IN  sign = providedSign

\* The empty string, as a candidate: the rendering of no bytes.
NoSignature == Sprintf02x(<<>>)

NoIssue == [dom |-> "none", fields |-> <<>>, sig |-> NoSignature]

NoVerdict == [dom |-> "none", fields |-> <<>>, candidate |-> NoSignature,
              result |-> FALSE]

(***************************************************************************)
(* The namespace registry: node.Config, Validate and channelOpts.          *)
(***************************************************************************)
\* Number of entries of Config.Namespaces.
MaxNs == 2

Callers == {"c1", "c2"}

\* channel.Options is opaque here: its zero value and one other value.
ZeroOptions == "Options{}"

OptionsValues == {ZeroOptions, "Options{Watch: true}"}

NamespaceNames ==
  {EmptyString, <<"_">>, <<"n", "-">>, <<"N", "-">>, <<"1", "!">>}

NamespaceEntries == [Name : NamespaceNames, Options : OptionsValues]

RECURSIVE ListsOfLen(_)
ListsOfLen(n) ==
  IF n = 0 THEN {<<>>}
  ELSE {Append(l, e) : l \in ListsOfLen(n - 1), e \in NamespaceEntries}

Configs ==
  [Options : OptionsValues,
   Namespaces : UNION {ListsOfLen(n) : n \in 0..MaxNs}]

LowerLetters ==
  {"a", "b", "c", "d", "e", "f", "g", "h", "i", "j", "k", "l", "m",
   "n", "o", "p", "q", "r", "s", "t", "u", "v", "w", "x", "y", "z"}

UpperLetters ==
  {"A", "B", "C", "D", "E", "F", "G", "H", "I", "J", "K", "L", "M",
   "N", "O", "P", "Q", "R", "S", "T", "U", "V", "W", "X", "Y", "Z"}

Digits == {"0", "1", "2", "3", "4", "5", "6", "7", "8", "9"}

\* The character class [-a-zA-Z0-9_] of the pattern.
patternClass == {"-", "_"} \cup LowerLetters \cup UpperLetters \cup Digits

\* Faulty variant: the pattern asks for one character or more.
regexpMatchString_OneOrMore(name) ==
  /\ Len(name) >= 1
  /\ \A k \in 1..Len(name) : name[k] \in patternClass

\* regexp.MatchString("^[-a-zA-Z0-9_]{2,}$", name)
regexpMatchString(name) ==
  /\ Len(name) >= 2
  /\ \A k \in 1..Len(name) : name[k] \in patternClass

RECURSIVE stringInSlice(_, _)
stringInSlice(a, list) ==
  IF list = <<>> THEN FALSE
  ELSE IF Head(list) = a THEN TRUE
  ELSE stringInSlice(a, Tail(list))

errPrefix == "config error: "

NilError == <<>>

\* The message ends with the offending name (the dash of the source is
\* written "-" here).
errWrongName(name) == <<errPrefix, "wrong namespace name - ", name>>

errNotUnique == <<errPrefix, "namespace name must be unique">>

\* Faulty variant: a name counts as repeated when any other entry of the
\* list bears it, not only an earlier one.
validateIteration_AnyOther(namespaces, i, nss) ==
  IF i > Len(namespaces)
  THEN [returned |-> TRUE, err |-> NilError, i |-> i, nss |-> nss]
  ELSE
    LET name == namespaces[i].Name
        match == regexpMatchString(name)
    IN  IF ~match
        THEN [returned |-> TRUE, err |-> errWrongName(name), i |-> i,
              nss |-> nss]
        ELSE IF \E j \in 1..Len(namespaces) : j # i /\ namespaces[j].Name = name
        THEN [returned |-> TRUE, err |-> errNotUnique, i |-> i, nss |-> nss]
        ELSE [returned |-> FALSE, err |-> NilError, i |-> i + 1,
              nss |-> Append(nss, name)]

\* One turn of Validate's loop, at entry i with the names seen so far, or
\* the return that follows the loop.
validateIteration(namespaces, i, nss) ==
  IF i > Len(namespaces)
  THEN [returned |-> TRUE, err |-> NilError, i |-> i, nss |-> nss]
  ELSE
    LET name == namespaces[i].Name
        match == regexpMatchString(name)
    IN  IF ~match
        THEN [returned |-> TRUE, err |-> errWrongName(name), i |-> i,
              nss |-> nss]
        ELSE IF stringInSlice(name, nss)
        THEN [returned |-> TRUE, err |-> errNotUnique, i |-> i, nss |-> nss]
        ELSE [returned |-> FALSE, err |-> NilError, i |-> i + 1,
              nss |-> Append(nss, name)]

RECURSIVE validateFrom(_, _, _)
validateFrom(namespaces, i, nss) ==
  LET r == validateIteration(namespaces, i, nss)
  IN  IF r.returned THEN r.err ELSE validateFrom(namespaces, r.i, r.nss)

\* Config.Validate run alone, from call to return.
Validate(c) == validateFrom(c.Namespaces, 1, <<>>)

\* Faulty variant: the empty name is searched for like any other.
channelOptsEntry_NoDefault(c, namespaceName) ==
  [returned |-> FALSE, opts |-> ZeroOptions, found |-> FALSE]

\* The test channelOpts makes before its loop.
channelOptsEntry(c, namespaceName) ==
  IF namespaceName = EmptyString
  THEN [returned |-> TRUE, opts |-> c.Options, found |-> TRUE]
  ELSE [returned |-> FALSE, opts |-> ZeroOptions, found |-> FALSE]

toLower(ch) ==
  IF ch = "N" THEN "n" ELSE ch

equalFold(a, b) ==
  /\ Len(a) = Len(b)
  /\ \A k \in 1..Len(a) : toLower(a[k]) = toLower(b[k])

\* Faulty variant: names are compared without regard to case.
channelOptsIteration_FoldCase(c, namespaceName, i) ==
  IF i > Len(c.Namespaces)
  THEN [returned |-> TRUE, opts |-> ZeroOptions, found |-> FALSE, i |-> i]
  ELSE IF equalFold(c.Namespaces[i].Name, namespaceName)
  THEN [returned |-> TRUE, opts |-> c.Namespaces[i].Options, found |-> TRUE,
        i |-> i]
  ELSE [returned |-> FALSE, opts |-> ZeroOptions, found |-> FALSE, i |-> i + 1]

\* One turn of channelOpts's loop at entry i, or the return that follows it.
channelOptsIteration(c, namespaceName, i) ==
  IF i > Len(c.Namespaces)
  THEN [returned |-> TRUE, opts |-> ZeroOptions, found |-> FALSE, i |-> i]
  ELSE IF c.Namespaces[i].Name = namespaceName
  THEN [returned |-> TRUE, opts |-> c.Namespaces[i].Options, found |-> TRUE,
        i |-> i]
  ELSE [returned |-> FALSE, opts |-> ZeroOptions, found |-> FALSE, i |-> i + 1]

RECURSIVE channelOptsFrom(_, _, _)
channelOptsFrom(c, namespaceName, i) ==
  LET r == channelOptsIteration(c, namespaceName, i)
  IN  IF r.returned THEN [opts |-> r.opts, found |-> r.found]
      ELSE channelOptsFrom(c, namespaceName, r.i)

\* Config.channelOpts run alone, from call to return.
channelOpts(c, namespaceName) ==
  LET e == channelOptsEntry(c, namespaceName)
  IN  IF e.returned THEN [opts |-> e.opts, found |-> e.found]
      ELSE channelOptsFrom(c, namespaceName, 1)

(***************************************************************************)
(* Callers run Validate and channelOpts concurrently on one Config, one    *)
(* loop turn at a time.  No reload: nothing replaces the Config.           *)
(***************************************************************************)
Idle ==
  [op |-> "idle", pc |-> "idle", name |-> EmptyString, i |-> 0, nss |-> <<>>,
   err |-> NilError, opts |-> ZeroOptions, found |-> FALSE]

InitReg ==
  /\ cfg \in Configs
  /\ cfg0 = cfg
  /\ calls = [p \in Callers |-> Idle]
  /\ secret = CHOOSE k \in Secrets : TRUE
  /\ phase = "idle"
  /\ issued = NoIssue
  /\ verdict = NoVerdict

ValidateCall(p) ==
  /\ calls[p].pc = "idle"
  /\ calls' = [calls EXCEPT ![p] = [Idle EXCEPT !.op = "validate",
                                               !.pc = "loop", !.i = 1]]
  /\ UNCHANGED <<cfg, cfg0, sigVars>>

\* Faulty variant: the entry just accepted is dropped from the Config.
ValidateIter_InPlace(p) ==
  /\ calls[p].op = "validate"
  /\ calls[p].pc = "loop"
  /\ LET r == validateIteration(cfg.Namespaces, calls[p].i, calls[p].nss)
     IN  /\ calls' = [calls EXCEPT ![p].pc = IF r.returned THEN "done" ELSE "loop",
                                   ![p].err = r.err,
                                   ![p].i = r.i,
                                   ![p].nss = r.nss]
         /\ cfg' = IF r.returned THEN cfg
                   ELSE [cfg EXCEPT !.Namespaces = Tail(@)]
  /\ UNCHANGED <<cfg0, sigVars>>

ValidateIter(p) ==
  /\ calls[p].op = "validate"
  /\ calls[p].pc = "loop"
  /\ LET r == validateIteration(cfg.Namespaces, calls[p].i, calls[p].nss)
     IN  calls' = [calls EXCEPT ![p].pc = IF r.returned THEN "done" ELSE "loop",
                                ![p].err = r.err,
                                ![p].i = r.i,
                                ![p].nss = r.nss]
  /\ UNCHANGED <<cfg, cfg0, sigVars>>

ResolveCall(p) ==
  /\ calls[p].pc = "idle"
  /\ \E namespaceName \in NamespaceNames :
       LET e == channelOptsEntry(cfg, namespaceName)
       IN  calls' = [calls EXCEPT ![p] =
                       [Idle EXCEPT !.op = "resolve",
                                    !.pc = IF e.returned THEN "done" ELSE "loop",
                                    !.name = namespaceName,
                                    !.i = 1,
                                    !.opts = e.opts,
                                    !.found = e.found]]
  /\ UNCHANGED <<cfg, cfg0, sigVars>>

ResolveIter(p) ==
  /\ calls[p].op = "resolve"
  /\ calls[p].pc = "loop"
  /\ LET r == channelOptsIteration(cfg, calls[p].name, calls[p].i)
     IN  calls' = [calls EXCEPT ![p].pc = IF r.returned THEN "done" ELSE "loop",
                                ![p].opts = r.opts,
                                ![p].found = r.found,
                                ![p].i = r.i]
  /\ UNCHANGED <<cfg, cfg0, sigVars>>

\* The caller takes the result; it may call again.
Return(p) ==
  /\ calls[p].pc = "done"
  /\ calls' = [calls EXCEPT ![p] = Idle]
  /\ UNCHANGED <<cfg, cfg0, sigVars>>

NextReg ==
  \E p \in Callers :
    \/ ValidateCall(p)
    \/ ValidateIter(p)
    \/ ResolveCall(p)
    \/ ResolveIter(p)
    \/ Return(p)

SpecReg == InitReg /\ [][NextReg]_vars

(***************************************************************************)
(* The signature service as the transport layer drives it: a signature is  *)
(* minted by one of the three generators, then presented as the candidate  *)
(* to one of the three checks (any domain, any fields).  A check made      *)
(* before anything was minted is given the empty string as candidate.      *)
(***************************************************************************)
InitSig ==
  /\ secret \in Secrets
  /\ phase = "idle"
  /\ issued = NoIssue
  /\ verdict = NoVerdict
  /\ cfg = [Options |-> ZeroOptions, Namespaces |-> <<>>]
  /\ cfg0 = cfg
  /\ calls = [p \in Callers |-> Idle]

GenerateConnectionToken ==
  /\ phase = "idle"
  /\ \E f \in TokenFields :
       issued' = [dom |-> "token", fields |-> f,
                  sig |-> generateClientToken(secret, f[1], f[2], f[3], f[4])]
  /\ phase' = "issued"
  /\ UNCHANGED <<secret, verdict, regVars>>

GenerateAPISign ==
  /\ phase = "idle"
  /\ \E f \in ApiFields :
       issued' = [dom |-> "api", fields |-> f,
                  sig |-> generateApiSign(secret, f[1], f[2])]
  /\ phase' = "issued"
  /\ UNCHANGED <<secret, verdict, regVars>>

GenerateChannelSign ==
  /\ phase = "idle"
  /\ \E f \in ChannelFields :
       issued' = [dom |-> "channel", fields |-> f,
                  sig |-> generateChannelSign(secret, f[1], f[2], f[3])]
  /\ phase' = "issued"
  /\ UNCHANGED <<secret, verdict, regVars>>

VerifyConnectionToken ==
  /\ phase \in {"idle", "issued"}
  /\ \E f \in TokenFields :
       verdict' = [dom |-> "token", fields |-> f, candidate |-> issued.sig,
                   result |-> checkClientToken(secret, f[1], f[2], f[3], f[4],
                                               issued.sig)]
  /\ phase' = "verified"
  /\ UNCHANGED <<secret, issued, regVars>>

VerifyAPISign ==
  /\ phase \in {"idle", "issued"}
  /\ \E f \in ApiFields :
       verdict' = [dom |-> "api", fields |-> f, candidate |-> issued.sig,
                   result |-> checkApiSign(secret, f[1], f[2], issued.sig)]
  /\ phase' = "verified"
  /\ UNCHANGED <<secret, issued, regVars>>

VerifyChannelSign ==
  /\ phase \in {"idle", "issued"}
  /\ \E f \in ChannelFields :
       verdict' = [dom |-> "channel", fields |-> f, candidate |-> issued.sig,
                   result |-> checkChannelSign(secret, f[1], f[2], f[3],
                                               issued.sig)]
  /\ phase' = "verified"
  /\ UNCHANGED <<secret, issued, regVars>>

\* The exchange is over; the next one starts afresh.
NextExchange ==
  /\ phase = "verified"
  /\ phase' = "idle"
  /\ issued' = NoIssue
  /\ verdict' = NoVerdict
  /\ UNCHANGED <<secret, regVars>>

NextSig ==
  \/ GenerateConnectionToken
  \/ GenerateAPISign
  \/ GenerateChannelSign
  \/ VerifyConnectionToken
  \/ VerifyAPISign
  \/ VerifyChannelSign
  \/ NextExchange

SpecSig == InitSig /\ [][NextSig]_vars

(***************************************************************************)
(* Properties of the signature service.                                    *)
(***************************************************************************)
EmptyObject == <<"{", "}">>

\* The value Generate of domain `dom` returns for secret k and fields f.
Generate(dom, k, f) ==
  CASE dom = "token" -> generateClientToken(k, f[1], f[2], f[3], f[4])
    [] dom = "api" -> generateApiSign(k, f[1], f[2])
    [] dom = "channel" -> generateChannelSign(k, f[1], f[2], f[3])

\* The logical field tuple: an empty connInfo stands for "{}".
Logical(dom, f) ==
  IF dom = "token" /\ f[4] = EmptyString THEN [f EXCEPT ![4] = EmptyObject]
  ELSE f

RECURSIVE Concat(_)
Concat(f) == IF f = <<>> THEN <<>> ELSE Head(f) \o Concat(Tail(f))

\* g is f with exactly one byte of exactly one field replaced by another byte.
SingleByteChange(f, g) ==
  /\ Len(f) = Len(g)
  /\ \E i \in 1..Len(f) :
       /\ \A j \in 1..Len(f) : j # i => f[j] = g[j]
       /\ Len(f[i]) = Len(g[i])
       /\ \E k \in 1..Len(f[i]) :
            /\ f[i][k] # g[i][k]
            /\ \A m \in 1..Len(f[i]) : m # k => f[i][m] = g[i][m]

\* A minted signature was presented to a check.
Presented == phase = "verified" /\ issued.dom # "none"

\* C1: Verify returns a boolean, true exactly when the candidate equals the
\* value Generate returns for the same secret and fields; a signature
\* presented with the fields it was generated for is accepted.
C1_VerifyIffCandidateIsGenerated ==
  phase = "verified" =>
    /\ verdict.result \in BOOLEAN
    /\ verdict.result <=>
         (verdict.candidate = Generate(verdict.dom, secret, verdict.fields))
    /\ (issued.dom = verdict.dom /\ issued.fields = verdict.fields)
         => verdict.result

C1_Witness ==
  /\ Presented
  /\ issued.dom = verdict.dom
  /\ issued.fields = verdict.fields
  /\ verdict.fields # <<EmptyString, EmptyString, EmptyString>>
  /\ verdict.result

\* C2 as claimed: within one domain a presented signature is accepted only
\* with the logical field tuple it was generated for.
C2_AcceptedOnlyForSameTuple ==
  (Presented /\ issued.dom = verdict.dom /\ verdict.result)
    => Logical(issued.dom, issued.fields) = Logical(verdict.dom, verdict.fields)

\* C2 amended: within one domain a presented signature is accepted exactly
\* when the fields of the check, written one after the other (empty connInfo
\* as "{}"), give the same bytes as the fields it was generated for.
C2_AcceptedIffSameBytes ==
  (Presented /\ issued.dom = verdict.dom) =>
    (verdict.result <=>
       Concat(Logical(issued.dom, issued.fields))
         = Concat(Logical(verdict.dom, verdict.fields)))

\* Accepted although the field boundary was moved.
C2_Witness ==
  /\ Presented
  /\ issued.dom = "token"
  /\ verdict.dom = "token"
  /\ Logical("token", issued.fields) # Logical("token", verdict.fields)
  /\ verdict.result

\* C3: a signature presented with one byte of one field changed is rejected.
C3_SingleByteChangeRejected ==
  (Presented /\ issued.dom = verdict.dom
     /\ SingleByteChange(issued.fields, verdict.fields))
    => ~verdict.result

C3_Witness ==
  /\ Presented
  /\ issued.dom = "channel"
  /\ verdict.dom = "channel"
  /\ issued.fields[1] = verdict.fields[1]
  /\ issued.fields[2] = verdict.fields[2]
  /\ SingleByteChange(issued.fields, verdict.fields)
  /\ ~verdict.result

\* C4 as claimed: a signature of one domain is never accepted by the check
\* of another domain.
C4_NeverAcceptedAcrossDomains ==
  (Presented /\ issued.dom # verdict.dom) => ~verdict.result

\* C4 amended: a signature of one domain is accepted by the check of another
\* domain exactly when the fields of the two calls, written one after the
\* other (empty connInfo as "{}"), give the same bytes.
C4_AcceptedAcrossDomainsIffSameBytes ==
  (Presented /\ issued.dom # verdict.dom) =>
    (verdict.result <=>
       Concat(Logical(issued.dom, issued.fields))
         = Concat(Logical(verdict.dom, verdict.fields)))

C4_Witness ==
  /\ Presented
  /\ issued.dom = "api"
  /\ verdict.dom = "channel"
  /\ issued.fields # <<EmptyString, EmptyString>>
  /\ verdict.result

\* Both connInfo values are among "" and "{}".
BothDefault(a, b) == {a, b} \subseteq {EmptyString, EmptyObject}

\* f and g agree on every field but the i-th.
AgreeBut(f, g, i) ==
  /\ Len(f) = Len(g)
  /\ \A j \in 1..Len(f) : j # i => f[j] = g[j]

\* C5: a token generated with empty connInfo is the token generated with
\* "{}", and each is accepted with the other; two connInfo values not both
\* among "" and "{}" are told apart; in the API and channel domains a field
\* "" and a field "{}" are told apart.
C5_EmptyInfoIsEmptyObject ==
  /\ (issued.dom = "token" /\ issued.fields[4] = EmptyString) =>
       issued.sig = generateClientToken(secret, issued.fields[1],
                      issued.fields[2], issued.fields[3], EmptyObject)
  /\ (Presented /\ issued.dom = "token" /\ verdict.dom = "token"
        /\ AgreeBut(issued.fields, verdict.fields, 4)) =>
       (verdict.result <=>
          \/ issued.fields[4] = verdict.fields[4]
          \/ BothDefault(issued.fields[4], verdict.fields[4]))
  /\ (Presented /\ issued.dom = verdict.dom /\ issued.dom # "token") =>
       \A i \in 1..Len(issued.fields) :
         (/\ AgreeBut(issued.fields, verdict.fields, i)
          /\ issued.fields[i] # verdict.fields[i]
          /\ BothDefault(issued.fields[i], verdict.fields[i]))
           => ~verdict.result

C5_Witness ==
  /\ Presented
  /\ issued.dom = "token"
  /\ verdict.dom = "token"
  /\ issued.fields[4] = EmptyString
  /\ verdict.fields[4] = EmptyObject
  /\ verdict.result

(***************************************************************************)
(* Properties of the namespace registry.                                   *)
(***************************************************************************)
ValidateDone(p) == calls[p].op = "validate" /\ calls[p].pc = "done"

ResolveDone(p) == calls[p].op = "resolve" /\ calls[p].pc = "done"

\* At least two characters, each from [A-Za-z0-9_-].
WellFormed(name) ==
  /\ Len(name) >= 2
  /\ \A k \in 1..Len(name) :
       name[k] \in (LowerLetters \cup UpperLetters \cup Digits \cup {"_", "-"})

NoNameTwice(ns) ==
  \A j, k \in 1..Len(ns) : j # k => ns[j].Name # ns[k].Name

\* C6: Validate returns no error exactly when every name is well-formed and
\* no name occurs twice; an accepted list has pairwise distinct names and no
\* entry named by the empty string.
C6_ValidateOkIffWellFormedAndUnique ==
  \A p \in Callers :
    ValidateDone(p) =>
      /\ (calls[p].err = NilError) <=>
           /\ \A k \in 1..Len(cfg.Namespaces) : WellFormed(cfg.Namespaces[k].Name)
           /\ NoNameTwice(cfg.Namespaces)
      /\ (calls[p].err = NilError) =>
           /\ NoNameTwice(cfg.Namespaces)
           /\ \A k \in 1..Len(cfg.Namespaces) :
                cfg.Namespaces[k].Name # EmptyString

C6_Witness ==
  \E p \in Callers :
    /\ ValidateDone(p)
    /\ calls[p].err = NilError
    /\ Len(cfg.Namespaces) = 2

\* C7: channelOpts("") returns the Config's own Options with found = true,
\* whatever the namespace list holds.
C7_EmptyNameResolvesToDefault ==
  \A p \in Callers :
    (ResolveDone(p) /\ calls[p].name = EmptyString) =>
      /\ calls[p].found
      /\ calls[p].opts = cfg.Options

C7_Witness ==
  \E p \in Callers :
    /\ ResolveDone(p)
    /\ calls[p].name = EmptyString
    /\ calls[p].found
    /\ \E k \in 1..Len(cfg.Namespaces) :
         /\ cfg.Namespaces[k].Name = EmptyString
         /\ cfg.Namespaces[k].Options # cfg.Options

Bijections(n) ==
  {f \in [1..n -> 1..n] : \A j, k \in 1..n : j # k => f[j] # f[k]}

Reorderings(ns) ==
  {[k \in 1..Len(ns) |-> ns[f[k]]] : f \in Bijections(Len(ns))}

\* C8: for a non-empty name channelOpts finds a namespace exactly when one of
\* that very name is declared, returns the options of a namespace of that
\* name when found and the zero value when not; on a list Validate accepts
\* the result is the same for every order of the list.
C8_NameResolvesToItsNamespace ==
  \A p \in Callers :
    (ResolveDone(p) /\ calls[p].name # EmptyString) =>
      /\ calls[p].found <=>
           \E k \in 1..Len(cfg.Namespaces) :
             cfg.Namespaces[k].Name = calls[p].name
      /\ calls[p].found =>
           \E k \in 1..Len(cfg.Namespaces) :
             /\ cfg.Namespaces[k].Name = calls[p].name
             /\ cfg.Namespaces[k].Options = calls[p].opts
      /\ ~calls[p].found => calls[p].opts = ZeroOptions
      /\ Validate(cfg) = NilError =>
           \A ns \in Reorderings(cfg.Namespaces) :
             channelOpts([cfg EXCEPT !.Namespaces = ns], calls[p].name)
               = [opts |-> calls[p].opts, found |-> calls[p].found]

C8_Witness ==
  \E p \in Callers :
    /\ ResolveDone(p)
    /\ calls[p].found
    /\ calls[p].i = 2
    /\ calls[p].opts # ZeroOptions
    /\ Validate(cfg) = NilError

\* C9: Validate and channelOpts calls running concurrently leave the Config
\* as it was constructed, and each channelOpts call returns what it returns
\* when run alone on that Config.
C9_ReadersLeaveRegistryUnchanged ==
  /\ cfg = cfg0
  /\ \A p \in Callers :
       ResolveDone(p) =>
         [opts |-> calls[p].opts, found |-> calls[p].found]
           = channelOpts(cfg0, calls[p].name)

C9_Witness ==
  /\ cfg = cfg0
  /\ ResolveDone("c1")
  /\ calls["c1"].found
  /\ calls["c1"].i = 2
  /\ calls["c2"].op = "validate"
  /\ calls["c2"].pc = "loop"
  /\ calls["c2"].i = 3

\* The entry at k breaks a rule: its name is ill-formed, or an earlier entry
\* bears it.
Violating(ns, k) ==
  \/ ~WellFormed(ns[k].Name)
  \/ \E j \in 1..(k - 1) : ns[j].Name = ns[k].Name

\* C10: a failed Validate stopped at the first violating entry, with the
\* wrong-name error naming that entry's name if it is ill-formed, and the
\* must-be-unique error otherwise.
C10_FirstViolationReported ==
  \A p \in Callers :
    (ValidateDone(p) /\ calls[p].err # NilError) =>
      LET ns == cfg.Namespaces
          k == calls[p].i
      IN  /\ k \in 1..Len(ns)
          /\ Violating(ns, k)
          /\ \A j \in 1..(k - 1) : ~Violating(ns, j)
          /\ calls[p].err = IF WellFormed(ns[k].Name) THEN errNotUnique
                            ELSE errWrongName(ns[k].Name)

C10_Witness ==
  \E p \in Callers :
    /\ ValidateDone(p)
    /\ Len(cfg.Namespaces) = 2
    /\ cfg.Namespaces[1].Name = cfg.Namespaces[2].Name
    /\ ~WellFormed(cfg.Namespaces[1].Name)
    /\ calls[p].i = 1
    /\ calls[p].err = errWrongName(cfg.Namespaces[1].Name)

====
